---------------------------- MODULE Spec2Model ----------------------------
(***************************************************************************)
(* Verification model of the scan engine of kamisara/2csproject:          *)
(*   apps/scans_app/utils/scanner.py        run_scan and its stages       *)
(*   apps/scans_app/utils/cve_providers.py  the CVE correlator            *)
(*   apps/scans_app/utils/cache.py          the cache service             *)
(*                                                                         *)
(* Texts (banners, Server headers) are sequences of lexemes               *)
(* [word, ver]: a word followed, when ver # "", by a separator and a      *)
(* version.  Python's None and "" are both falsy wherever the code tests  *)
(* a text or a version, and are modelled by <<>> and "" respectively.     *)
(* CVE identifiers are numbered in their lexicographic order.              *)
(***************************************************************************)
EXTENDS Integers, Sequences, FiniteSets, TLC

VARIABLES
    pc,              \* position of run_scan: start, submit, collect, http, tls, cve, done,
                     \* raised; lib when no scan runs
    mode,            \* argument mode
    target,          \* argument target, as [scheme, netloc]
    host,            \* local host
    base_url,        \* local base_url, as [scheme, host]
    ports,           \* local ports
    nsub,            \* number of ports already submitted to the pool
    queue,           \* the pool's work queue (FIFO)
    threads,         \* number of worker threads the pool has started
    running,         \* ports whose probe is executing on a worker
    finished,        \* results of finished futures not yet yielded by as_completed
    open_ports,      \* local open_ports
    http_info,       \* local http_info
    tls_info,        \* the tls_info field of the report
    todo,            \* unique_candidates not yet correlated
    vulnerabilities, \* local vulnerabilities
    httpLog,         \* HTTP requests sent so far, in order
    tlsLog,          \* TLS handshakes attempted so far
    extractLog,      \* texts handed to _extract_product_version so far
    cveLog,          \* (product, version) pairs passed to the correlator so far
    tcpOk,           \* ports on which a TCP connect succeeded
    port_lists,      \* the configured port lists [quick, full], within the bounds
    reachable,       \* the target host accepts connections on some ports
    redis_on,        \* a redis:// target is configured and the redis module imports
    redis_client,    \* cache._redis_client: "none" or "client"
    redis_store,     \* contents of the shared store: key -> [value, expires_at]
    memory_store,    \* cache._memory_store: key -> [value, expires_at]
    now,             \* time.time(), in whole ticks
    nvd_key,         \* NVD_API_KEY is configured
    cacheLog,        \* cache and provider operations performed so far
    qpc,             \* position of query_cves_for_product_version: idle, osv, nvd, circl, merge
    q,               \* its frame: product, version, out and what each lookup returned
    qret,            \* what its last call returned
    calls,           \* number of direct calls of the correlator so far
    lastSet,         \* the last completed cache set of each key: [value, ttl, at]
    lastGet,         \* the last completed cache get: [key, val, at, src, immediate]
    from_url_raises, \* redis.Redis.from_url raises on the configured connection target
    cacheRaised,     \* the cache operation that raised to its caller, or "none"
    tpc,             \* position of each thread in get_client
    tnew,            \* the client each thread has constructed and not yet stored
    tret,            \* what get_client returned to each thread
    constructed,     \* number of clients constructed so far
    scans,           \* the Scan table: id -> row, or NoRow
    resp,            \* the last response of the scan API
    tls_env          \* the handshake and certificate met by a direct _tls_cert_info call

scanVars == <<pc, mode, target, host, base_url, ports, nsub, queue, threads,
              running, finished, open_ports, http_info, tls_info, todo,
              vulnerabilities, httpLog, tlsLog, extractLog, cveLog, tcpOk,
              port_lists, reachable>>
cacheVars == <<redis_on, redis_client, redis_store, memory_store, now, lastSet, lastGet>>
cveVars == <<nvd_key, cacheLog, qpc, q, qret, calls>>
clientVars == <<from_url_raises, cacheRaised, tpc, tnew, tret, constructed>>
apiVars == <<scans, resp>>
tlsVars == <<tls_env>>
extVars == <<clientVars, apiVars, tlsVars>>
vars == <<scanVars, cacheVars, cveVars, extVars>>

---------------------------------------------------------------------------
(* Bounds of the model *)

\* number of leading ports of TOP_PORTS_QUICK the model scans
QuickLen == 3
\* number of leading full-only ports of TOP_PORTS_FULL the model scans as well
FullExtra == 1
\* number of leading ports of TOP_PORTS_FULL the pool specification submits
PoolFullLen == 13
\* number of direct calls of the correlator
MaxCalls == 2
\* CVE identifiers 1..MaxCve, numbered in lexicographic order
MaxCve == 2
\* the clock runs from 1 to MaxTime
MaxTime == 4

\* number of threads that call get_client concurrently
NThreads == 3

\* number of scans the API creates
MaxScans == 2

\* notAfter ranges from MaxHours before to MaxHours after the current time
MaxHours == 300

\* number of lexemes of the texts handed to a direct call of the extractor
MaxTextLen == 2

---------------------------------------------------------------------------
(* scanner.py: configuration *)

MAX_WORKERS == 12

TOP_PORTS_QUICK == <<80, 443, 22, 21, 25, 3306, 445>>

TOP_PORTS_FULL ==
    <<21, 22, 23, 25, 53, 80, 110, 135, 139, 143, 161, 389, 443, 445,
      3389, 5900, 8080, 8081, 8443, 3306, 9200, 27017>>

PORT_SERVICE ==
    [p \in {21, 22, 23, 25, 53, 80, 110, 135, 139, 143, 161, 389, 443, 445,
            3389, 5900, 8080, 8081, 8443, 3306, 9200, 27017} |->
        CASE p = 21 -> "ftp"       [] p = 22 -> "ssh"
          [] p = 23 -> "telnet"    [] p = 25 -> "smtp"
          [] p = 53 -> "dns"       [] p = 80 -> "http"
          [] p = 110 -> "pop3"     [] p = 135 -> "msrpc"
          [] p = 139 -> "netbios-ssn" [] p = 143 -> "imap"
          [] p = 161 -> "snmp"     [] p = 389 -> "ldap"
          [] p = 443 -> "https"    [] p = 445 -> "smb"
          [] p = 3389 -> "rdp"     [] p = 5900 -> "vnc"
          [] p = 8080 -> "http-alt" [] p = 8081 -> "http-alt"
          [] p = 8443 -> "https-alt" [] p = 3306 -> "mysql"
          [] p = 9200 -> "elasticsearch" [] p = 27017 -> "mongodb"]

\* PORT_SERVICE.get(port, "unknown")
ServiceOf(p) == IF p \in DOMAIN PORT_SERVICE THEN PORT_SERVICE[p] ELSE "unknown"

---------------------------------------------------------------------------
(* Helpers on sequences *)

Range(s) == {s[i] : i \in 1..Len(s)}

Min(a, b) == IF a < b THEN a ELSE b

Max(a, b) == IF a < b THEN b ELSE a

Take(s, n) == SubSeq(s, 1, Min(n, Len(s)))

\* the port lists the model scans: the ports of each configured list that
\* belong to the bounded universe, in the list's own order
FullOnly == SelectSeq(TOP_PORTS_FULL, LAMBDA p : p \notin Range(TOP_PORTS_QUICK))

Universe == Range(Take(TOP_PORTS_QUICK, QuickLen)) \cup Range(Take(FullOnly, FullExtra))

QuickPorts == SelectSeq(TOP_PORTS_QUICK, LAMBDA p : p \in Universe)

FullPorts == SelectSeq(TOP_PORTS_FULL, LAMBDA p : p \in Universe)


---------------------------------------------------------------------------
(* Texts and strings *)

\* Python None / "" for a text (banner, header): both falsy
NoText == <<>>

\* Python None for an optional value; <<v>> is the value v
None == <<>>

Some(v) == <<v>>

\* the empty dict {}
EmptyDict == <<>>

\* str.lower() on the strings of the model
Lower(s) ==
    CASE s = "Nginx" -> "nginx"
      [] s = "OpenSSH" -> "openssh"
      [] s = "Ubuntu" -> "ubuntu"
      [] s = "vsFTPd" -> "vsftpd"
      [] s = " Nginx " -> " nginx "
      [] OTHER -> s

\* str.strip() on the strings of the model
Strip(s) ==
    CASE s = " Nginx " -> "Nginx"
      [] s = " nginx " -> "nginx"
      [] s = " " -> ""
      [] OTHER -> s

\* str.isalpha() on the words of the model
IsAlpha(w) == w \in {"nginx", "Nginx", "OpenSSH", "Ubuntu", "vsFTPd", "ok", "mysql"}

Lex(w, v) == [word |-> w, ver |-> v]

SshBanner == <<Lex("OpenSSH", "8.9p1"), Lex("Ubuntu", "3")>>   \* "OpenSSH_8.9p1 Ubuntu-3"

NginxBanner == <<Lex("Nginx", "1.2")>>                        \* "Nginx/1.2"

FtpBanner == <<Lex("220", ""), Lex("vsFTPd", "3.0.3")>>       \* "220 (vsFTPd 3.0.3)"

NginxHeader == <<Lex("nginx", "1.2")>>                        \* "nginx/1.2"

\* a host whose port 443 answers the probe's "\r\n" in clear ("400 Bad
\* Request", Server: nginx/1.2) while its port 80 sends "Nginx/1.2"
MixedHost == "mixed.example"

\* banners a host of the model may send on a port
BannerChoices(p) ==
    CASE p = 22 -> {NoText, SshBanner}
      [] p = 80 -> {NoText, NginxBanner}
      [] p = 21 -> {NoText, FtpBanner}
      [] p = 443 /\ host = MixedHost -> {NoText, NginxHeader}
      [] OTHER -> {NoText}

\* Server headers a host of the model may send
ServerChoices == {NoText, NginxHeader}

---------------------------------------------------------------------------
(* scanner.py: _extract_product_version *)

PRODUCT_PATTERNS ==
    <<"nginx", "apache", "httpd", "openssh", "openssl", "gunicorn", "mysql", "postgresql">>

\* pat.search(t): the first lexeme naming the product, followed by a version
PatternMatch(pat, t) ==
    LET hits == {i \in 1..Len(t) : Lower(t[i].word) = pat /\ t[i].ver # ""}
    IN  IF hits = {} THEN None
        ELSE LET i == CHOOSE j \in hits : \A k \in hits : j <= k
             IN  Some(<<t[i].word, t[i].ver>>)

\* the fallback: first alphabetic token longer than 2
FallbackToken(t) ==
    LET hits == {i \in 1..Len(t) : IsAlpha(t[i].word) /\ Len(t[i].word) > 2}
    IN  IF hits = {} THEN None
        ELSE LET i == CHOOSE j \in hits : \A k \in hits : j <= k
             IN  Some(<<t[i].word, "">>)

\* a slip: the patterns tried as one alternation, the first match in the
\* text winning
FirstInText(i, t) ==
    LET hits == {j \in 1..Len(t) : Lower(t[j].word) \in Range(PRODUCT_PATTERNS)
                                     /\ t[j].ver # ""}
    IN  IF hits = {} THEN FallbackToken(t)
        ELSE LET j == CHOOSE x \in hits : \A y \in hits : x <= y
             IN  Some(<<t[j].word, t[j].ver>>)

RECURSIVE FirstPattern(_, _)
FirstPattern(i, t) ==
    IF i > Len(PRODUCT_PATTERNS) THEN FallbackToken(t)
    ELSE IF PatternMatch(PRODUCT_PATTERNS[i], t) # None
         THEN PatternMatch(PRODUCT_PATTERNS[i], t)
         ELSE FirstPattern(i + 1, t)

\* returns None or Some(<<product, version>>), version "" when absent
ExtractProductVersion(text) ==
    IF text = NoText THEN None ELSE FirstPattern(1, text)

---------------------------------------------------------------------------
(* scanner.py: _normalize_target *)

\* targets of the model: an optional scheme prefix and the rest of the string
Targets ==
    { [scheme |-> "", netloc |-> "example.com"],
      [scheme |-> "https", netloc |-> "example.com"],
      [scheme |-> "http", netloc |-> "a.b[c"] }

\* urlparse raises ValueError("Invalid IPv6 URL") when the authority holds
\* one square bracket without the other
UrlparseRaises(t) == t.netloc = "a.b[c"

\* does _normalize_target(target) raise
NormalizeRaises(t) == t.scheme \in {"http", "https"} /\ UrlparseRaises(t)

\* the pair host, base_url
NormalizeTarget(t) ==
    IF t.scheme \in {"http", "https"}
    THEN [host |-> t.netloc, base_url |-> [scheme |-> t.scheme, host |-> t.netloc]]
    ELSE [host |-> t.netloc, base_url |-> [scheme |-> "http", host |-> t.netloc]]


---------------------------------------------------------------------------
(* cache.py: the cache service, as functions of the cache state           *)
(*   cs = [on, client, redis, mem]                                        *)

Put(st, k, e) == [x \in (DOMAIN st) \cup {k} |-> IF x = k THEN e ELSE st[x]]

Drop(st, k) == [x \in (DOMAIN st) \ {k} |-> st[x]]

\* json.dumps / json.loads on the payloads of the model
Dumps(v) == [json |-> v]

Loads(raw) == raw.json

\* get_client(): the client after the call
GetClient(cs) ==
    IF cs.client # "none" THEN cs.client
    ELSE IF cs.on THEN "client" ELSE "none"

\* r.get(key) on the shared store: the value of a live key
RedisGet(st, k, t) ==
    IF k \in DOMAIN st /\ t < st[k].expires_at THEN Some(st[k].value) ELSE None

\* r.setex(key, ttl, value) is refused by the store for a ttl that is not positive
SetexRaises(ttl) == ttl <= 0

\* the in-memory branch of get: [val, mem]
MemoryGet(mem, k, t) ==
    IF k \notin DOMAIN mem THEN [val |-> None, mem |-> mem]
    ELSE LET item == mem[k]
         IN  IF item.expires_at # None /\ item.expires_at[1] # 0 /\ item.expires_at[1] < t
             THEN [val |-> None, mem |-> Drop(mem, k)]
             ELSE [val |-> Some(item.value), mem |-> mem]

\* get(key) at time t; fail: the call to the shared store raises.  [val, cs]
CacheGet(cs, k, t, fail) ==
    LET cs1 == [cs EXCEPT !.client = GetClient(cs)]
    IN  IF cs1.client # "none" /\ ~fail
        THEN [val |-> RedisGet(cs1.redis, k, t), cs |-> cs1]
        ELSE LET m == MemoryGet(cs1.mem, k, t)
             IN  [val |-> m.val, cs |-> [cs1 EXCEPT !.mem = m.mem]]

\* set(key, value, ttl) at time t; fail: the call to the shared store raises
CacheSet(cs, k, v, ttl, t, fail) ==
    LET cs1 == [cs EXCEPT !.client = GetClient(cs)]
    IN  IF cs1.client # "none" /\ ~fail /\ ~SetexRaises(ttl)
        THEN [cs1 EXCEPT !.redis = Put(cs1.redis, k, [value |-> v, expires_at |-> t + ttl])]
        ELSE [cs1 EXCEPT !.mem = Put(cs1.mem, k,
                 [value |-> v, expires_at |-> IF ttl # 0 THEN Some(t + ttl) ELSE None])]

\* get_json(key): [val, cs]
GetJson(cs, k, t, fail) ==
    LET g == CacheGet(cs, k, t, fail)
    IN  [val |-> IF g.val = None THEN None ELSE Some(Loads(g.val[1])), cs |-> g.cs]

\* set_json(key, value, ttl)
SetJson(cs, k, v, ttl, t, fail) == CacheSet(cs, k, Dumps(v), ttl, t, fail)

\* (p or "").replace(" ", "_").lower() on the key parts of the model
KeyPart(s) ==
    CASE s = "a b" -> "a_b"
      [] OTHER -> Lower(s)

RECURSIVE JoinParts(_)
JoinParts(parts) ==
    IF Len(parts) = 0 THEN ""
    ELSE IF Len(parts) = 1 THEN KeyPart(parts[1])
    ELSE KeyPart(parts[1]) \o ":" \o JoinParts(Tail(parts))

\* cache_key(*parts): empty parts are skipped
cache_key(parts) == "vulnscanner:" \o JoinParts(SelectSeq(parts, LAMBDA x : x # ""))


---------------------------------------------------------------------------
(* cve_providers.py: the provider lookups and the correlator *)

CACHE_TTL_SECONDS == 86400

CveIds == 1..MaxCve

\* sorted(S)
RECURSIVE SortSet(_)
SortSet(S) ==
    IF S = {} THEN <<>>
    ELSE LET m == CHOOSE x \in S : \A y \in S : x <= y
         IN  <<m>> \o SortSet(S \ {m})

\* what the environment does to one lookup: the shared store fails on the
\* get (gfail) or on the set (sfail); the provider answers (ok) with the CVE
\* identifiers ids (none, or the first n), or the request fails (timeout,
\* non-200, malformed payload)
AllLookupEnvs ==
    { e \in [gfail : BOOLEAN, sfail : BOOLEAN, ok : BOOLEAN,
              ids : {1..n : n \in 0..MaxCve}] :
        e.ok \/ e.ids = {} }

\* the provider database a scan runs against
ProviderDb(provider, product) ==
    CASE provider = "osv" /\ Lower(product) = "nginx" -> {1, 2}
      [] provider = "osv" -> {2}
      [] provider = "circl" /\ Lower(product) = "nginx" -> {1}
      [] OTHER -> {1, 2}

\* during a scan every request to a provider answers from ProviderDb or
\* fails; a direct call of the correlator meets every environment
LookupEnvs(provider, product) ==
    IF pc = "lib" THEN AllLookupEnvs
    ELSE { [gfail |-> FALSE, sfail |-> FALSE, ok |-> c,
            ids |-> ProviderDb(provider, product) \cap CveIds] : c \in BOOLEAN }

\* the cache state as one value
CS == [on |-> redis_on, client |-> redis_client, redis |-> redis_store, mem |-> memory_store]

LogEntry(op, arg) == [op |-> op, arg |-> arg]

\* _fetch() of a provider: sorted(list(set(cves))), [] on any failure
Fetch(e) == IF e.ok THEN SortSet(e.ids) ELSE <<>>

\* _cached(key, ttl, fetch_fn): [out, cs, log]
Cached(cs, log, provider, key, ttl, t, e) ==
    LET g == GetJson(cs, key, t, e.gfail)
        log1 == Append(log, LogEntry("get", key))
    IN  IF g.val # None
        THEN [out |-> g.val[1], cs |-> g.cs, log |-> log1]
        ELSE LET data == Fetch(e)
             IN  [out |-> data,
                  cs |-> SetJson(g.cs, key, data, ttl, t, e.sfail),
                  log |-> log1 \o <<LogEntry("fetch", provider)>>
                               \o (IF e.ok THEN <<>> ELSE <<LogEntry("failed", provider)>>)
                               \o <<LogEntry("set", key)>>]

\* osv_lookup(product, version): [out, cs, log]
osv_lookup(cs, log, product, version, t, e) ==
    LET p == Strip(product)
    IN  IF p = "" THEN [out |-> <<>>, cs |-> cs, log |-> log]
        ELSE Cached(cs, log, "osv", cache_key(<<"cve", "osv", p, version>>),
                    CACHE_TTL_SECONDS, t, e)

\* the keyword of nvd_lookup: f"{product} {version}".strip(), or product.strip()
NvdKeyword(product, version) ==
    IF version # "" THEN Strip(product) \o " " \o version ELSE Strip(product)

\* the key part made of the keyword: its spaces become underscores
NvdKeyPart(product, version) ==
    IF version # "" THEN KeyPart(Strip(product)) \o "_" \o KeyPart(version)
    ELSE KeyPart(Strip(product))

\* the cache key of nvd_lookup: cache_key("cve", "nvd", q)
NvdKey(product, version) == "vulnscanner:cve:nvd:" \o NvdKeyPart(product, version)

\* a slip: the lookup runs without looking at the credential
nvd_lookupAlwaysEnabled(cs, log, enabled, product, version, t, e) ==
    IF NvdKeyword(product, version) = "" THEN [out |-> <<>>, cs |-> cs, log |-> log]
    ELSE Cached(cs, log, "nvd", NvdKey(product, version), CACHE_TTL_SECONDS, t, e)

\* nvd_lookup(product, version), enabled only with an API key
nvd_lookup(cs, log, enabled, product, version, t, e) ==
    IF ~enabled THEN [out |-> <<>>, cs |-> cs, log |-> log]
    ELSE IF NvdKeyword(product, version) = "" THEN [out |-> <<>>, cs |-> cs, log |-> log]
    ELSE Cached(cs, log, "nvd", NvdKey(product, version), CACHE_TTL_SECONDS, t, e)

\* circl_lookup(vendor, product)
circl_lookup(cs, log, vendor, product, t, e) ==
    LET v == Lower(Strip(vendor))
        p == Lower(Strip(product))
    IN  IF v = "" \/ p = "" THEN [out |-> <<>>, cs |-> cs, log |-> log]
        ELSE Cached(cs, log, "circl", cache_key(<<"cve", "circl", v, p>>),
                    CACHE_TTL_SECONDS, t, e)

VENDOR_KEYS ==
    <<"nginx", "apache", "httpd", "openssl", "openssh", "mysql", "postgresql", "gunicorn">>

VENDOR_MAP(k) ==
    CASE k = "httpd" -> "apache"
      [] k = "mysql" -> "oracle"
      [] OTHER -> k

\* k in p (substring) on the products of the model
Contains(k, p) == p = k \/ (k = "mysql" /\ p = "mysqld")

\* _guess_vendor(product): "" when no vendor is guessed
guess_vendor(product) ==
    LET p == Lower(Strip(product))
        hits == {i \in 1..Len(VENDOR_KEYS) : Contains(VENDOR_KEYS[i], p)}
    IN  IF hits = {} THEN ""
        ELSE VENDOR_MAP(VENDOR_KEYS[CHOOSE i \in hits : \A j \in hits : i <= j])

\* a slip: the lists concatenated, neither deduplicated nor sorted
MergeOutConcat(out) == out

\* the final "De-dup and sort": sorted(set(out))
MergeOut(out) == SortSet(Range(out))

NewFrame(product, version) ==
    [product |-> Strip(product), version |-> version, out |-> <<>>,
     osv |-> <<>>, nvd |-> <<>>, circl |-> <<>>]

IdleFrame == NewFrame("", "")

\* the steps of query_cves_for_product_version, once a caller has set the frame
OsvLookup ==
    /\ qpc = "osv"
    /\ \E e \in LookupEnvs("osv", q.product) :
         LET r == osv_lookup(CS, cacheLog, q.product, q.version, now, e)
         IN  /\ q' = [q EXCEPT !.out = @ \o r.out, !.osv = r.out]
             /\ redis_client' = r.cs.client
             /\ redis_store' = r.cs.redis
             /\ memory_store' = r.cs.mem
             /\ cacheLog' = r.log
    /\ qpc' = "nvd"
    /\ UNCHANGED <<scanVars, redis_on, now, lastSet, lastGet, nvd_key, qret, calls, extVars>>

\* a slip: a lookup that returns nothing empties the merged list
NvdLookupClearsOnEmpty ==
    /\ qpc = "nvd"
    /\ \E e \in LookupEnvs("nvd", q.product) :
         LET r == nvd_lookup(CS, cacheLog, nvd_key, q.product, q.version, now, e)
         IN  /\ q' = [q EXCEPT !.out = IF r.out = <<>> THEN <<>> ELSE @ \o r.out,
                               !.nvd = r.out]
             /\ redis_client' = r.cs.client
             /\ redis_store' = r.cs.redis
             /\ memory_store' = r.cs.mem
             /\ cacheLog' = r.log
    /\ qpc' = "circl"
    /\ UNCHANGED <<scanVars, redis_on, now, lastSet, lastGet, nvd_key, qret, calls, extVars>>

NvdLookup ==
    /\ qpc = "nvd"
    /\ \E e \in LookupEnvs("nvd", q.product) :
         LET r == nvd_lookup(CS, cacheLog, nvd_key, q.product, q.version, now, e)
         IN  /\ q' = [q EXCEPT !.out = @ \o r.out, !.nvd = r.out]
             /\ redis_client' = r.cs.client
             /\ redis_store' = r.cs.redis
             /\ memory_store' = r.cs.mem
             /\ cacheLog' = r.log
    /\ qpc' = "circl"
    /\ UNCHANGED <<scanVars, redis_on, now, lastSet, lastGet, nvd_key, qret, calls, extVars>>

CirclLookup ==
    /\ qpc = "circl"
    /\ \E e \in LookupEnvs("circl", q.product) :
         LET vendor == guess_vendor(q.product)
             r == IF vendor # ""
                  THEN circl_lookup(CS, cacheLog, vendor, q.product, now, e)
                  ELSE [out |-> <<>>, cs |-> CS, log |-> cacheLog]
         IN  /\ q' = [q EXCEPT !.out = @ \o r.out, !.circl = r.out]
             /\ redis_client' = r.cs.client
             /\ redis_store' = r.cs.redis
             /\ memory_store' = r.cs.mem
             /\ cacheLog' = r.log
    /\ qpc' = "merge"
    /\ UNCHANGED <<scanVars, redis_on, now, lastSet, lastGet, nvd_key, qret, calls, extVars>>

Merge ==
    /\ qpc = "merge"
    /\ qret' = MergeOut(q.out)
    /\ qpc' = "ret"
    /\ UNCHANGED <<scanVars, cacheVars, nvd_key, cacheLog, q, calls, extVars>>


---------------------------------------------------------------------------
(* scanner.py: the stages of run_scan *)

\* a slip: the correlator runs in every mode
CorrelatesInAny(m) == TRUE

\* if mode == "full": the providers are queried
CorrelatesIn(m) == m = "full"

\* a slip: the two lists exchanged
PortsOfSwapped(m) == IF m = "quick" THEN port_lists.full ELSE port_lists.quick

\* ports = TOP_PORTS_QUICK if mode == "quick" else TOP_PORTS_FULL
PortsOf(m) == IF m = "quick" THEN port_lists.quick ELSE port_lists.full

\* a slip: the pool as wide as the port list
PoolWidthUnbounded(ps) == Max(1, Len(ps))

\* max_workers of the pool
PoolWidth(ps) == Min(MAX_WORKERS, Max(1, Len(ps)))

\* a slip: the state does not follow the connect
ScanPortWorkerAlwaysOpen(port, conn, b) ==
    [port |-> port, service |-> ServiceOf(port), state |-> "open", banner |-> b]

\* _scan_port_worker(host, port): conn is the outcome of _tcp_connect, b what
\* _banner_grab returns
ScanPortWorker(port, conn, b) ==
    [port |-> port,
     service |-> ServiceOf(port),
     state |-> IF conn THEN "open" ELSE "closed",
     banner |-> IF conn THEN b ELSE NoText]

\* what _tcp_connect may return
ConnectOutcomes == IF reachable THEN BOOLEAN ELSE {FALSE}

\* any(p["port"] == n and p["state"] == "open" for p in open_ports)
HasOpen(ops, n) == \E i \in 1..Len(ops) : ops[i].port = n /\ ops[i].state = "open"

\* a slip: leaving the loop at the first completed future
FirstCollected == Len(open_ports) >= 1

\* as_completed(futures) is exhausted: every submitted future has been yielded
AllCollected == \A p \in Range(ports) : \E i \in 1..Len(open_ports) : open_ports[i].port = p

\* base, or None when neither 80 nor 443 is open
\* a slip: port 80 preferred to port 443
PickBasePrefersHttp(ops, burl, h) ==
    IF HasOpen(ops, 80)
    THEN Some(IF burl.scheme = "http" THEN burl ELSE [scheme |-> "http", host |-> h])
    ELSE IF HasOpen(ops, 443)
    THEN Some(IF burl.scheme = "https" THEN burl ELSE [scheme |-> "https", host |-> h])
    ELSE None

PickBase(ops, burl, h) ==
    IF HasOpen(ops, 443)
    THEN Some(IF burl.scheme = "https" THEN burl ELSE [scheme |-> "https", host |-> h])
    ELSE IF HasOpen(ops, 80)
    THEN Some(IF burl.scheme = "http" THEN burl ELSE [scheme |-> "http", host |-> h])
    ELSE None

\* what the target does to one HTTP inspection: the outcome of the HEAD, of
\* the GET, of the robots.txt GET and of the plain-HTTP retry, whether the
\* content type is HTML, and the Server header it sends
HttpEnvs ==
    [head : {"ok", "reqexc", "exc"}, html : BOOLEAN, get : {"ok", "reqexc", "exc"},
     robots : {"200", "404", "exc"}, retry : {"ok", "exc"}, server : ServerChoices]

Req(method, scheme, path) == [method |-> method, scheme |-> scheme, path |-> path]

InitialOut ==
    [status |-> None, title |-> None, server |-> NoText, hsts |-> FALSE, csp |-> None,
     robots |-> None, cookie_flags |-> <<>>, redirect_chain |-> <<>>]

\* out["server"] or g.headers.get("Server")
OrText(a, b) == IF a # NoText THEN a ELSE b

\* a slip: the retry is made whatever the scheme of the base URL
HttpRetryAnyScheme(out, log, base, e) ==
    IF e.retry = "ok"
    THEN [out |-> [out EXCEPT !.status = Some(200),
                              !.server = OrText(out.server, e.server),
                              !.title = Some("Home")],
          log |-> Append(log, Req("GET", "http", "/"))]
    ELSE [out |-> out, log |-> Append(log, Req("GET", "http", "/"))]

\* the handler of requests.RequestException: the plain-HTTP retry
HttpRetry(out, log, base, e) ==
    IF base.scheme = "https"
    THEN IF e.retry = "ok"
         THEN [out |-> [out EXCEPT !.status = Some(200),
                                   !.server = OrText(out.server, e.server),
                                   !.title = Some("Home")],
               log |-> Append(log, Req("GET", "http", "/"))]
         ELSE [out |-> out, log |-> Append(log, Req("GET", "http", "/"))]
    ELSE [out |-> out, log |-> log]

\* the targets of a scan answer HTML to the GET and to the robots.txt GET
ScanHttpEnvs == {e \in HttpEnvs : e.html /\ e.get = "ok" /\ e.robots = "200"}

\* _http_basic_checks(session, base_url): [out, log]
HttpBasicChecks(base, log, e) ==
    LET log1 == Append(log, Req("HEAD", base.scheme, "/"))
        out1 == [InitialOut EXCEPT !.status = Some(200), !.server = e.server]
        log2 == Append(log1, Req("GET", base.scheme, "/"))
        out2 == [out1 EXCEPT !.server = OrText(out1.server, e.server),
                             !.title = Some("Home")]
        log3 == Append(log2, Req("GET", base.scheme, "/robots.txt"))
    IN  CASE e.head = "reqexc" -> HttpRetry(InitialOut, log1, base, e)
          [] e.head = "exc" -> [out |-> InitialOut, log |-> log1]
          [] e.head = "ok" /\ ~e.html -> [out |-> out1, log |-> log1]
          [] e.head = "ok" /\ e.html /\ e.get = "reqexc" -> HttpRetry(out1, log2, base, e)
          [] e.head = "ok" /\ e.html /\ e.get = "exc" -> [out |-> out1, log |-> log2]
          [] OTHER ->
               [out |-> [out2 EXCEPT !.robots =
                           CASE e.robots = "200" -> Some(TRUE)
                             [] e.robots = "404" -> Some(FALSE)
                             [] OTHER -> None],
                log |-> log3]

\* what the target does to the TLS inspection: whether the handshake
\* succeeds, and notAfter as hours from now (None: missing or unparseable)
TlsEnvs == [handshake : BOOLEAN, not_after : {None, Some(-1), Some(250)}]

\* the certificates of the targets of a scan
ScanTlsEnvs == {e \in TlsEnvs : e.not_after = Some(250)}

\* a slip: a certificate in its last day counted valid
TlsCertInfoValidAtZero(e) ==
    IF ~e.handshake THEN None
    ELSE Some([valid_to |-> e.not_after,
               days_left |-> IF e.not_after # None THEN Some(e.not_after[1] \div 24) ELSE None,
               valid |-> IF e.not_after # None THEN Some(e.not_after[1] \div 24 >= 0) ELSE None])

\* a slip: days_left and valid default to 0 and False instead of None
TlsCertInfoZeroDefault(e) ==
    IF ~e.handshake THEN None
    ELSE Some([valid_to |-> e.not_after,
               days_left |-> IF e.not_after # None THEN Some(e.not_after[1] \div 24) ELSE Some(0),
               valid |-> IF e.not_after # None THEN Some(e.not_after[1] \div 24 > 0)
                         ELSE Some(FALSE)])

\* _tls_cert_info(host, 443): None or the certificate dict
TlsCertInfo(e) ==
    IF ~e.handshake THEN None
    ELSE Some([valid_to |-> e.not_after,
               days_left |-> IF e.not_after # None THEN Some(e.not_after[1] \div 24) ELSE None,
               valid |-> IF e.not_after # None THEN Some(e.not_after[1] \div 24 > 0) ELSE None])

\* x or {}
OrEmptyDict(x) == IF x = None THEN EmptyDict ELSE x[1]

\* the texts run_scan hands to _extract_product_version, in order
RECURSIVE Banners(_)
Banners(ops) ==
    IF ops = <<>> THEN <<>>
    ELSE (IF Head(ops).banner # NoText THEN <<Head(ops).banner>> ELSE <<>>)
         \o Banners(Tail(ops))

ScanTexts(ops, hinfo) ==
    Banners(ops)
    \o (IF hinfo # EmptyDict /\ hinfo.server # NoText THEN <<hinfo.server>> ELSE <<>>)

\* candidates: the fingerprints extracted from the texts
RECURSIVE Candidates(_)
Candidates(texts) ==
    IF texts = <<>> THEN <<>>
    ELSE (IF ExtractProductVersion(Head(texts)) # None
          THEN ExtractProductVersion(Head(texts)) ELSE <<>>)
         \o Candidates(Tail(texts))

\* a slip: a case-sensitive key
DedupKeyExact(c) == c

\* k = (prod.lower(), (ver or "").lower())
DedupKey(c) == <<Lower(c[1]), Lower(c[2])>>

\* the loop "Deduplicate (product,version)": keeps the first of each key
RECURSIVE Unique(_, _)
Unique(cands, seen) ==
    IF cands = <<>> THEN <<>>
    ELSE IF DedupKey(Head(cands)) \in seen THEN Unique(Tail(cands), seen)
    ELSE <<Head(cands)>> \o Unique(Tail(cands), seen \cup {DedupKey(Head(cands))})

\* one entry of vulnerabilities; name, description and reference_links are
\* built from cve, prod and ver
Finding(cve, c) ==
    [severity |-> "low", cve |-> cve, path |-> "/", prod |-> c[1], ver |-> c[2]]

\* a slip: only the first identifier of a fingerprint is reported
FindingsFirstOnly(cves, c) ==
    IF cves = <<>> THEN <<>> ELSE <<Finding(Head(cves), c)>>

RECURSIVE Findings(_, _)
Findings(cves, c) ==
    IF cves = <<>> THEN <<>> ELSE <<Finding(Head(cves), c)>> \o Findings(Tail(cves), c)


---------------------------------------------------------------------------
(* run_scan as a state machine *)

EmptyStore == <<>>

poolVars == <<nsub, queue, threads, running, finished>>

logVars == <<httpLog, tlsLog, extractLog, cveLog>>

ScanInit ==
    /\ mode \in {"quick", "full"}
    /\ host = ""
    /\ base_url = [scheme |-> "", host |-> ""]
    /\ ports = <<>>
    /\ nsub = 0
    /\ queue = <<>>
    /\ threads = 0
    /\ running = {}
    /\ finished = EmptyStore
    /\ open_ports = <<>>
    /\ http_info = EmptyDict
    /\ tls_info = EmptyDict
    /\ todo = <<>>
    /\ vulnerabilities = <<>>
    /\ httpLog = <<>>
    /\ tlsLog = <<>>
    /\ extractLog = <<>>
    /\ cveLog = <<>>
    /\ tcpOk = {}

\* host, base_url = _normalize_target(target); ports = ...; the pool is created
Start ==
    /\ pc = "start"
    /\ IF NormalizeRaises(target)
       THEN /\ pc' = "raised"
            /\ UNCHANGED <<host, base_url, ports>>
       ELSE /\ host' = NormalizeTarget(target).host
            /\ base_url' = NormalizeTarget(target).base_url
            /\ ports' = PortsOf(mode)
            /\ pc' = "submit"
    /\ UNCHANGED <<mode, target, poolVars, open_ports, http_info, tls_info, todo,
                   vulnerabilities, logVars, tcpOk, port_lists, reachable, cacheVars, cveVars, extVars>>

\* pool.submit(_scan_port_worker, host, p) for the next p of ports: the work
\* item is queued, and a thread is started unless an idle one is free or the
\* pool is at its width
Submit ==
    /\ pc = "submit"
    /\ nsub < Len(ports)
    /\ queue' = Append(queue, ports[nsub + 1])
    /\ nsub' = nsub + 1
    /\ threads' = IF threads - Cardinality(running) - Len(queue) <= 0
                     /\ threads < PoolWidth(ports)
                  THEN threads + 1 ELSE threads
    /\ pc' = IF nsub + 1 = Len(ports) THEN "collect" ELSE "submit"
    /\ UNCHANGED <<mode, target, host, base_url, ports, running, finished, open_ports,
                   http_info, tls_info, todo, vulnerabilities, logVars, tcpOk,
                   port_lists, reachable, cacheVars, cveVars, extVars>>

\* a worker thread that is not running a probe takes the head of the queue
WorkerTake ==
    /\ queue # <<>>
    /\ Cardinality(running) < threads
    /\ running' = running \cup {Head(queue)}
    /\ queue' = Tail(queue)
    /\ UNCHANGED <<pc, mode, target, host, base_url, ports, nsub, threads, finished,
                   open_ports, http_info, tls_info, todo, vulnerabilities, logVars,
                   tcpOk, port_lists, reachable, cacheVars, cveVars, extVars>>

\* the probe of port p runs to its end and its future gets the result
WorkerFinish(p) ==
    /\ p \in running
    /\ \E conn \in ConnectOutcomes, b \in BannerChoices(p) :
         /\ finished' = Put(finished, p, ScanPortWorker(p, conn, b))
         /\ tcpOk' = IF conn THEN tcpOk \cup {p} ELSE tcpOk
    /\ running' = running \ {p}
    /\ UNCHANGED <<pc, mode, target, host, base_url, ports, nsub, queue, threads,
                   open_ports, http_info, tls_info, todo, vulnerabilities, logVars,
                   port_lists, reachable, cacheVars, cveVars, extVars>>

\* for fut in as_completed(futures): open_ports.append(fut.result())
Collect(p) ==
    /\ pc = "collect"
    /\ p \in DOMAIN finished
    /\ open_ports' = Append(open_ports, finished[p])
    /\ finished' = Drop(finished, p)
    /\ UNCHANGED <<pc, mode, target, host, base_url, ports, nsub, queue, threads,
                   running, http_info, tls_info, todo, vulnerabilities, logVars, tcpOk,
                   port_lists, reachable, cacheVars, cveVars, extVars>>

\* the loop over as_completed ends and the with block is left
Join ==
    /\ pc = "collect"
    /\ AllCollected
    /\ pc' = "http"
    /\ UNCHANGED <<mode, target, host, base_url, ports, poolVars, open_ports, http_info,
                   tls_info, todo, vulnerabilities, logVars, tcpOk, port_lists, reachable, cacheVars, cveVars, extVars>>

\* 2) HTTP checks
HttpStage ==
    /\ pc = "http"
    /\ LET base == PickBase(open_ports, base_url, host)
       IN  IF base = None
           THEN UNCHANGED <<http_info, httpLog>>
           ELSE \E e \in ScanHttpEnvs :
                  LET r == HttpBasicChecks(base[1], httpLog, e)
                  IN  /\ http_info' = r.out
                      /\ httpLog' = r.log
    /\ pc' = "tls"
    /\ UNCHANGED <<mode, target, host, base_url, ports, poolVars, open_ports, tls_info,
                   todo, vulnerabilities, tlsLog, extractLog, cveLog, tcpOk, port_lists, reachable, cacheVars,
                   cveVars, extVars>>

\* 3) TLS cert info, then the candidates and their deduplication
TlsStage ==
    /\ pc = "tls"
    /\ IF HasOpen(open_ports, 443)
       THEN \E e \in ScanTlsEnvs :
              /\ tls_info' = OrEmptyDict(TlsCertInfo(e))
              /\ tlsLog' = Append(tlsLog, host)
       ELSE UNCHANGED <<tls_info, tlsLog>>
    /\ extractLog' = ScanTexts(open_ports, http_info)
    /\ todo' = Unique(Candidates(ScanTexts(open_ports, http_info)), {})
    /\ pc' = "cve"
    /\ UNCHANGED <<mode, target, host, base_url, ports, poolVars, open_ports, http_info,
                   vulnerabilities, httpLog, cveLog, tcpOk, port_lists, reachable, cacheVars, cveVars, extVars>>

\* cves = query_cves_for_product_version(prod, ver) for the next candidate
Correlate ==
    /\ pc = "cve"
    /\ CorrelatesIn(mode)
    /\ todo # <<>>
    /\ qpc = "idle"
    /\ cveLog' = Append(cveLog, Head(todo))
    /\ q' = NewFrame(Head(todo)[1], Head(todo)[2])
    /\ IF Strip(Head(todo)[1]) = ""
       THEN qpc' = "ret" /\ qret' = <<>>
       ELSE qpc' = "osv" /\ UNCHANGED qret
    /\ UNCHANGED <<pc, mode, target, host, base_url, ports, poolVars, open_ports,
                   http_info, tls_info, todo, vulnerabilities, httpLog, tlsLog,
                   extractLog, tcpOk, port_lists, reachable, cacheVars, nvd_key,
                   cacheLog, calls, extVars>>

\* for cve in cves: vulnerabilities.append({...})
AppendFindings ==
    /\ pc = "cve"
    /\ qpc = "ret"
    /\ vulnerabilities' = vulnerabilities \o Findings(qret, Head(todo))
    /\ todo' = Tail(todo)
    /\ qpc' = "idle"
    /\ UNCHANGED <<pc, mode, target, host, base_url, ports, poolVars, open_ports,
                   http_info, tls_info, logVars, tcpOk, port_lists, reachable, cacheVars,
                   nvd_key, cacheLog, q, qret, calls, extVars>>

\* return {...}
Return ==
    /\ pc = "cve"
    /\ qpc = "idle"
    /\ ~CorrelatesIn(mode) \/ todo = <<>>
    /\ pc' = "done"
    /\ UNCHANGED <<mode, target, host, base_url, ports, poolVars, open_ports, http_info,
                   tls_info, todo, vulnerabilities, logVars, tcpOk, port_lists, reachable, cacheVars, cveVars, extVars>>

Threads == 1..NThreads

ScanIds == 1..MaxScans

\* no row of the Scan table has this id
NoRow == <<>>

\* no thread has called get_client, and no cache operation has raised
ClientIdle ==
    /\ tpc = [t \in Threads |-> "idle"]
    /\ tnew = [t \in Threads |-> "none"]
    /\ tret = [t \in Threads |-> "pending"]
    /\ constructed = 0
    /\ cacheRaised = "none"

\* the Scan table is empty and no request has been answered
ApiIdle ==
    /\ scans = [i \in ScanIds |-> NoRow]
    /\ resp = None

\* no direct call of _tls_cert_info
TlsIdle == tls_env = None

\* the cache and the correlator before their first use
LibInit ==
    /\ redis_client = "none"
    /\ redis_store = EmptyStore
    /\ memory_store = EmptyStore
    /\ now = 1
    /\ cacheLog = <<>>
    /\ qpc = "idle"
    /\ q = IdleFrame
    /\ qret = <<>>
    /\ calls = 0
    /\ lastSet = EmptyStore
    /\ lastGet = None

\* one run_scan of a reachable host, with the in-process cache and no NVD key
Init ==
    /\ pc = "start"
    /\ ScanInit
    /\ target \in Targets
    /\ port_lists = [quick |-> QuickPorts, full |-> FullPorts]
    /\ reachable = TRUE
    /\ LibInit
    /\ redis_on = FALSE
    /\ nvd_key = FALSE
    /\ ClientIdle
    /\ ApiIdle
    /\ TlsIdle
    /\ from_url_raises = FALSE

Next ==
    \/ Start
    \/ Submit
    \/ WorkerTake
    \/ \E p \in Range(ports) : WorkerFinish(p)
    \/ \E p \in Range(ports) : Collect(p)
    \/ Join
    \/ HttpStage
    \/ TlsStage
    \/ Correlate
    \/ OsvLookup
    \/ NvdLookup
    \/ CirclLookup
    \/ Merge
    \/ AppendFindings
    \/ Return

Spec == Init /\ [][Next]_vars

\* one full run_scan of the host whose ports spell the product differently,
\* over the ports 22, 80 and 443 of the full list
OrderInit ==
    /\ pc = "start"
    /\ ScanInit
    /\ mode = "full"
    /\ target = [scheme |-> "", netloc |-> MixedHost]
    /\ port_lists = [quick |-> QuickPorts,
                     full |-> SelectSeq(FullPorts, LAMBDA p : p \in {22, 80, 443})]
    /\ reachable = TRUE
    /\ LibInit
    /\ redis_on = FALSE
    /\ nvd_key = FALSE
    /\ ClientIdle
    /\ ApiIdle
    /\ TlsIdle
    /\ from_url_raises = FALSE

SpecOrder == OrderInit /\ [][Next]_vars


---------------------------------------------------------------------------
(* The worker pool of run_scan alone: the port lists are long enough to    *)
(* fill the pool, the host is unreachable, and the loop over as_completed  *)
(* is taken as one step once every future has finished (the order in which *)
(* results are appended is the subject of Spec).                           *)

\* for fut in as_completed(futures): open_ports.append(fut.result()), whole
CollectAll ==
    /\ pc = "collect"
    /\ queue = <<>>
    /\ running = {}
    /\ DOMAIN finished = Range(ports)
    /\ open_ports' = [i \in 1..Len(ports) |-> finished[ports[i]]]
    /\ finished' = EmptyStore
    /\ pc' = "http"
    /\ UNCHANGED <<mode, target, host, base_url, ports, nsub, queue, threads, running,
                   http_info, tls_info, todo, vulnerabilities, logVars, tcpOk,
                   port_lists, reachable, cacheVars, cveVars, extVars>>

PoolInit ==
    /\ pc = "start"
    /\ ScanInit
    /\ target = [scheme |-> "", netloc |-> "example.com"]
    /\ port_lists = [quick |-> TOP_PORTS_QUICK, full |-> Take(TOP_PORTS_FULL, PoolFullLen)]
    /\ reachable = FALSE
    /\ LibInit
    /\ redis_on = FALSE
    /\ nvd_key = FALSE
    /\ ClientIdle
    /\ ApiIdle
    /\ TlsIdle
    /\ from_url_raises = FALSE

PoolNext ==
    \/ Start
    \/ Submit
    \/ WorkerTake
    \/ \E p \in Range(ports) : WorkerFinish(p)
    \/ CollectAll

SpecPool == PoolInit /\ [][PoolNext]_vars

---------------------------------------------------------------------------
(* Direct calls of the correlator *)

\* the (product, version) arguments of the calls
CveInputs == {<<" Nginx ", "1.2">>, <<"vsFTPd", "">>}

\* a caller other than run_scan calls query_cves_for_product_version
CveCall(product, version) ==
    /\ pc = "lib"
    /\ qpc = "idle"
    /\ calls < MaxCalls
    /\ calls' = calls + 1
    /\ cacheLog' = <<>>
    /\ q' = NewFrame(product, version)
    /\ IF Strip(product) = ""
       THEN qpc' = "ret" /\ qret' = <<>>
       ELSE qpc' = "osv" /\ UNCHANGED qret
    /\ UNCHANGED <<scanVars, cacheVars, nvd_key, extVars>>

\* the call returns qret
CveReturn ==
    /\ pc = "lib"
    /\ qpc = "ret"
    /\ qpc' = "idle"
    /\ UNCHANGED <<scanVars, cacheVars, nvd_key, cacheLog, q, qret, calls, extVars>>

\* no scan is running
NoScan ==
    /\ pc = "lib"
    /\ ScanInit
    /\ mode = "quick"
    /\ target = [scheme |-> "", netloc |-> "example.com"]
    /\ port_lists = [quick |-> QuickPorts, full |-> FullPorts]
    /\ reachable = TRUE

CveInit ==
    /\ NoScan
    /\ LibInit
    /\ redis_on \in BOOLEAN
    /\ nvd_key \in BOOLEAN
    /\ ClientIdle
    /\ ApiIdle
    /\ TlsIdle
    /\ from_url_raises = FALSE

CveNext ==
    \/ \E c \in CveInputs : CveCall(c[1], c[2])
    \/ OsvLookup
    \/ NvdLookup
    \/ CirclLookup
    \/ Merge
    \/ CveReturn

SpecCve == CveInit /\ [][CveNext]_vars

---------------------------------------------------------------------------
(* Direct calls of the cache service *)

Keys == {"k"}

Values == {Dumps(<<>>), Dumps(<<1>>)}

TTLs == {0, 1, 2}

Stale(ls) == [k \in DOMAIN ls |-> [ls[k] EXCEPT !.fresh = FALSE]]

threadVars == <<tpc, tnew, tret, constructed>>

JsonValues == {<<>>, <<1>>}

\* get_client() reaches redis.Redis.from_url(url, ...) and the call raises:
\* no try block of get_client, get or set encloses it
GetClientRaises(cs) == cs.client = "none" /\ cs.on /\ from_url_raises

\* set(key, value, ttl), called as op
SetStep(k, v, ttl, op) ==
    /\ IF GetClientRaises(CS)
       THEN /\ cacheRaised' = op
            /\ UNCHANGED <<redis_client, redis_store, memory_store, lastSet>>
       ELSE /\ \E fail \in BOOLEAN :
                 LET cs == CacheSet(CS, k, v, ttl, now, fail)
                 IN  /\ redis_client' = cs.client
                     /\ redis_store' = cs.redis
                     /\ memory_store' = cs.mem
            /\ lastSet' = Put(Stale(lastSet), k,
                              [value |-> v, ttl |-> ttl, at |-> now, fresh |-> TRUE])
            /\ UNCHANGED cacheRaised
    /\ UNCHANGED <<scanVars, redis_on, now, lastGet, cveVars, from_url_raises,
                   threadVars, apiVars, tlsVars>>

\* get(key), called as op
GetStep(k, op) ==
    /\ IF GetClientRaises(CS)
       THEN /\ cacheRaised' = op
            /\ UNCHANGED <<redis_client, redis_store, memory_store, lastSet, lastGet>>
       ELSE /\ \E fail \in BOOLEAN :
                 LET g == CacheGet(CS, k, now, fail)
                     fromMemory == GetClient(CS) = "none" \/ fail
                 IN  /\ redis_client' = g.cs.client
                     /\ redis_store' = g.cs.redis
                     /\ memory_store' = g.cs.mem
                     /\ lastGet' = Some([key |-> k, val |-> g.val, at |-> now,
                                         src |-> IF fromMemory THEN "memory" ELSE "redis",
                                         expires_at |-> IF fromMemory /\ k \in DOMAIN memory_store
                                                        THEN memory_store[k].expires_at
                                                        ELSE None,
                                         immediate |-> k \in DOMAIN lastSet /\ lastSet[k].fresh])
            /\ lastSet' = Stale(lastSet)
            /\ UNCHANGED cacheRaised
    /\ UNCHANGED <<scanVars, redis_on, now, cveVars, from_url_raises, threadVars,
                   apiVars, tlsVars>>

\* set(key, value, ttl)
CacheSetOp(k, v, ttl) == SetStep(k, v, ttl, "set")

\* get(key)
CacheGetOp(k) == GetStep(k, "get")

\* set_json(key, value, ttl): set(key, json.dumps(value), ttl=ttl)
CacheSetJsonOp(k, v, ttl) == SetStep(k, Dumps(v), ttl, "set_json")

\* get_json(key): raw = get(key), then json.loads(raw)
CacheGetJsonOp(k) == GetStep(k, "get_json")

\* time passes
Tick ==
    /\ now < MaxTime
    /\ now' = now + 1
    /\ lastSet' = Stale(lastSet)
    /\ UNCHANGED <<scanVars, redis_on, redis_client, redis_store, memory_store, lastGet,
                   cveVars, extVars>>

CacheInit ==
    /\ NoScan
    /\ LibInit
    /\ redis_on \in BOOLEAN
    /\ nvd_key = FALSE
    /\ ClientIdle
    /\ ApiIdle
    /\ TlsIdle
    /\ from_url_raises \in BOOLEAN

CacheNext ==
    \/ \E k \in Keys, v \in Values, ttl \in TTLs : CacheSetOp(k, v, ttl)
    \/ \E k \in Keys : CacheGetOp(k)
    \/ \E k \in Keys, v \in JsonValues, ttl \in TTLs : CacheSetJsonOp(k, v, ttl)
    \/ \E k \in Keys : CacheGetJsonOp(k)
    \/ Tick

SpecCache == CacheInit /\ [][CacheNext]_vars

---------------------------------------------------------------------------
(* Concurrent calls of get and set on the in-process store: a get is the    *)
(* read of the entry and, when the entry read has expired, a later pop of   *)
(* the key; other threads run between the two.                              *)

\* item = _memory_store.get(key), and the tests of the entry read: absent or
\* live, the get returns; expired, the pop is still to come
MemGetRead(t, k) ==
    /\ tpc[t] = "idle"
    /\ LET m == MemoryGet(memory_store, k, now)
       IN  IF m.mem # memory_store
           THEN /\ tpc' = [tpc EXCEPT ![t] = "pop"]
                /\ UNCHANGED tret
           ELSE /\ tpc' = [tpc EXCEPT ![t] = "done"]
                /\ tret' = [tret EXCEPT ![t] = m.val]
    /\ UNCHANGED memory_store
    /\ UNCHANGED <<scanVars, redis_on, redis_client, redis_store, now, lastSet, lastGet,
                   cveVars, from_url_raises, cacheRaised, tnew, constructed, apiVars, tlsVars>>

\* _memory_store.pop(key, None); return None
MemGetPop(t, k) ==
    /\ tpc[t] = "pop"
    /\ memory_store' = Drop(memory_store, k)
    /\ tpc' = [tpc EXCEPT ![t] = "done"]
    /\ tret' = [tret EXCEPT ![t] = None]
    /\ UNCHANGED <<scanVars, redis_on, redis_client, redis_store, now, lastSet, lastGet,
                   cveVars, from_url_raises, cacheRaised, tnew, constructed, apiVars, tlsVars>>

\* the in-process store alone: no redis:// target is configured
MemInit == CacheInit /\ ~redis_on /\ ~from_url_raises

MemNext ==
    \/ \E k \in Keys, v \in Values, ttl \in TTLs : CacheSetOp(k, v, ttl)
    \/ \E t \in Threads, k \in Keys : MemGetRead(t, k)
    \/ \E t \in Threads, k \in Keys : MemGetPop(t, k)
    \/ Tick

SpecMem == MemInit /\ [][MemNext]_vars

---------------------------------------------------------------------------
(* Concurrent first calls of get_client *)

\* the n-th client object constructed: "client", "client+", "client++", ...
RECURSIVE ClientName(_)
ClientName(n) == IF n <= 1 THEN "client" ELSE ClientName(n - 1) \o "+"

ClientInit ==
    /\ NoScan
    /\ LibInit
    /\ redis_on \in BOOLEAN
    /\ nvd_key = FALSE
    /\ ClientIdle
    /\ ApiIdle
    /\ TlsIdle
    /\ from_url_raises = FALSE

\* what a step of get_client leaves alone, the cache client and the threads apart
ClientFrame ==
    UNCHANGED <<scanVars, redis_on, redis_store, memory_store, now, lastSet, lastGet,
                cveVars, from_url_raises, cacheRaised, apiVars, tlsVars>>

\* if _redis_client is not None: return _redis_client
ClientCheck(t) ==
    /\ tpc[t] = "idle"
    /\ IF redis_client # "none"
       THEN /\ tret' = [tret EXCEPT ![t] = redis_client]
            /\ tpc' = [tpc EXCEPT ![t] = "done"]
       ELSE /\ tpc' = [tpc EXCEPT ![t] = "pick"]
            /\ UNCHANGED tret
    /\ UNCHANGED <<redis_client, tnew, constructed>>
    /\ ClientFrame

\* url = _pick_redis_url(); if redis and url
ClientPick(t) ==
    /\ tpc[t] = "pick"
    /\ tpc' = [tpc EXCEPT ![t] = IF redis_on THEN "construct" ELSE "clear"]
    /\ UNCHANGED <<redis_client, tnew, tret, constructed>>
    /\ ClientFrame

\* redis.Redis.from_url(url, decode_responses=True) returns a new client
ClientConstruct(t) ==
    /\ tpc[t] = "construct"
    /\ constructed' = constructed + 1
    /\ tnew' = [tnew EXCEPT ![t] = ClientName(constructed + 1)]
    /\ tpc' = [tpc EXCEPT ![t] = "store"]
    /\ UNCHANGED <<redis_client, tret>>
    /\ ClientFrame

\* _redis_client = <the client just constructed>
ClientStore(t) ==
    /\ tpc[t] = "store"
    /\ redis_client' = tnew[t]
    /\ tpc' = [tpc EXCEPT ![t] = "return"]
    /\ UNCHANGED <<tnew, tret, constructed>>
    /\ ClientFrame

\* else: _redis_client = None
ClientClear(t) ==
    /\ tpc[t] = "clear"
    /\ redis_client' = "none"
    /\ tpc' = [tpc EXCEPT ![t] = "return"]
    /\ UNCHANGED <<tnew, tret, constructed>>
    /\ ClientFrame

\* return _redis_client
ClientReturn(t) ==
    /\ tpc[t] = "return"
    /\ tret' = [tret EXCEPT ![t] = redis_client]
    /\ tpc' = [tpc EXCEPT ![t] = "done"]
    /\ UNCHANGED <<redis_client, tnew, constructed>>
    /\ ClientFrame

ClientNext ==
    \E t \in Threads :
       \/ ClientCheck(t)
       \/ ClientPick(t)
       \/ ClientConstruct(t)
       \/ ClientStore(t)
       \/ ClientClear(t)
       \/ ClientReturn(t)

SpecClient == ClientInit /\ [][ClientNext]_vars

---------------------------------------------------------------------------
(* views.py: the scan API over the Scan table *)

STATUS_CHOICES == {"queued", "running", "completed", "failed", "canceled"}

\* the statuses on which ScanCancelView answers without writing
Terminal == {"completed", "failed", "canceled"}

Formats == {"json", "html", "pdf"}

\* a response: the view, the scan id, the HTTP status code, the scan status
\* it reports ("" when none) and whether it carries result data of the scan
Response(op, id, code, st, data) ==
    [op |-> op, id |-> id, code |-> code, status |-> st, data |-> data]

FreeIds == {i \in ScanIds : scans[i] = NoRow}

\* the authenticated users that send requests
Users == {"alice", "bob"}

\* Scan.objects.get(id=scan_id, user=request.user) finds a row
Visible(u, i) == scans[i] # NoRow /\ scans[i].user = u

ApiFrame == UNCHANGED <<scanVars, cacheVars, cveVars, clientVars, tlsVars>>

\* ScanListCreateView.post by user u: 400 on invalid input, else a queued row
\* owned by u and 201
CreateScan(u) ==
    /\ \E valid \in BOOLEAN :
         IF ~valid
         THEN /\ resp' = Some(Response("create", 0, 400, "", FALSE))
              /\ UNCHANGED scans
         ELSE /\ FreeIds # {}
              /\ LET i == CHOOSE x \in FreeIds : \A y \in FreeIds : x <= y
                 IN  /\ scans' = [scans EXCEPT ![i] =
                                    [user |-> u, status |-> "queued", progress |-> 0,
                                     estimated_time_left |-> None, has_result |-> FALSE]]
                     /\ resp' = Some(Response("create", i, 201, "queued", FALSE))
    /\ ApiFrame

\* the task worker (run_scan_task, enqueued by the create view) updates the
\* status and progress fields of a scan and stores its result
WorkerWrite(i, st) ==
    /\ scans[i] # NoRow
    /\ st \in {"running", "completed", "failed"}
    /\ \E stored \in BOOLEAN :
         scans' = [scans EXCEPT ![i] =
                     [user |-> scans[i].user,
                      status |-> st,
                      progress |-> CASE st = "running" -> 50
                                     [] st = "completed" -> 100
                                     [] OTHER -> scans[i].progress,
                      estimated_time_left |-> IF st = "running" THEN Some("1 min") ELSE None,
                      has_result |-> IF st = "completed" THEN stored
                                     ELSE scans[i].has_result]]
    /\ UNCHANGED resp
    /\ ApiFrame

\* ScanDetailView.get by user u
GetDetail(u, i) ==
    /\ resp' = Some(IF ~Visible(u, i) THEN Response("detail", i, 404, "", FALSE)
                    ELSE Response("detail", i, 200, scans[i].status, FALSE))
    /\ UNCHANGED scans
    /\ ApiFrame

\* a slip: the status is not looked at before the write
CancelScanAlways(u, i) ==
    /\ IF ~Visible(u, i)
       THEN /\ resp' = Some(Response("cancel", i, 404, "", FALSE))
            /\ UNCHANGED scans
       ELSE /\ scans' = [scans EXCEPT ![i].status = "canceled",
                                      ![i].estimated_time_left = None]
            /\ resp' = Some(Response("cancel", i, 200, "canceled", FALSE))
    /\ ApiFrame

\* a slip: the scan is looked up by its id alone
CancelScanAnyUser(u, i) ==
    /\ IF scans[i] = NoRow
       THEN /\ resp' = Some(Response("cancel", i, 404, "", FALSE))
            /\ UNCHANGED scans
       ELSE IF scans[i].status \in Terminal
       THEN /\ resp' = Some(Response("cancel", i, 200, scans[i].status, FALSE))
            /\ UNCHANGED scans
       ELSE /\ scans' = [scans EXCEPT ![i].status = "canceled",
                                      ![i].estimated_time_left = None]
            /\ resp' = Some(Response("cancel", i, 200, "canceled", FALSE))
    /\ ApiFrame

\* ScanCancelView.post by user u
CancelScan(u, i) ==
    /\ IF ~Visible(u, i)
       THEN /\ resp' = Some(Response("cancel", i, 404, "", FALSE))
            /\ UNCHANGED scans
       ELSE IF scans[i].status \in Terminal
       THEN /\ resp' = Some(Response("cancel", i, 200, scans[i].status, FALSE))
            /\ UNCHANGED scans
       ELSE /\ scans' = [scans EXCEPT ![i].status = "canceled",
                                      ![i].estimated_time_left = None]
            /\ resp' = Some(Response("cancel", i, 200, "canceled", FALSE))
    /\ ApiFrame

\* a slip: the result is served as soon as it is stored
GetResultUngated(u, i) ==
    /\ resp' = Some(IF ~Visible(u, i) THEN Response("result", i, 404, "", FALSE)
                    ELSE IF ~scans[i].has_result
                    THEN Response("result", i, 404, scans[i].status, FALSE)
                    ELSE Response("result", i, 200, scans[i].status, TRUE))
    /\ UNCHANGED scans
    /\ ApiFrame

\* ScanResultView.get by user u
GetResult(u, i) ==
    /\ resp' = Some(IF ~Visible(u, i) THEN Response("result", i, 404, "", FALSE)
                    ELSE IF scans[i].status # "completed"
                    THEN Response("result", i, 409, scans[i].status, FALSE)
                    ELSE IF ~scans[i].has_result
                    THEN Response("result", i, 404, scans[i].status, FALSE)
                    ELSE Response("result", i, 200, scans[i].status, TRUE))
    /\ UNCHANGED scans
    /\ ApiFrame

\* ScanDownloadView.get by user u, in format fmt: the report as JSON, HTML or PDF
Download(u, i, fmt) ==
    /\ resp' = Some(IF ~Visible(u, i) THEN Response("download", i, 404, "", FALSE)
                    ELSE IF scans[i].status # "completed"
                    THEN Response("download", i, 409, scans[i].status, FALSE)
                    ELSE Response("download " \o fmt, i, 200, scans[i].status, TRUE))
    /\ UNCHANGED scans
    /\ ApiFrame

ApiInit ==
    /\ NoScan
    /\ LibInit
    /\ redis_on = FALSE
    /\ nvd_key = FALSE
    /\ ClientIdle
    /\ ApiIdle
    /\ TlsIdle
    /\ from_url_raises = FALSE

ApiNext ==
    \/ \E u \in Users : CreateScan(u)
    \/ \E i \in ScanIds, st \in STATUS_CHOICES : WorkerWrite(i, st)
    \/ \E u \in Users, i \in ScanIds : GetDetail(u, i)
    \/ \E u \in Users, i \in ScanIds : CancelScan(u, i)
    \/ \E u \in Users, i \in ScanIds : GetResult(u, i)
    \/ \E u \in Users, i \in ScanIds, fmt \in Formats : Download(u, i, fmt)

SpecApi == ApiInit /\ [][ApiNext]_vars

---------------------------------------------------------------------------
(* Direct calls of the functions of the engine: one call per behaviour, or up
   to MaxCalls provider lookups *)

\* no function of the engine has been called
NoCall ==
    /\ pc = "lib"
    /\ httpLog = <<>>
    /\ extractLog = <<>>
    /\ cacheLog = <<>>

\* http_info = _http_basic_checks(sess, base), the target behaving as e
HttpCall(base, e) ==
    /\ NoCall
    /\ LET r == HttpBasicChecks(base, httpLog, e)
       IN  /\ http_info' = r.out
           /\ httpLog' = r.log
    /\ base_url' = base
    /\ UNCHANGED <<pc, mode, target, host, ports, poolVars, open_ports, tls_info, todo,
                   vulnerabilities, tlsLog, extractLog, cveLog, tcpOk, port_lists,
                   reachable, cacheVars, cveVars, extVars>>

\* the lexemes of the texts a direct call of the extractor is given
Lexemes ==
    {Lex("nginx", "1.23.4"), Lex("Nginx", "1.2"), Lex("nginx", ""), Lex("OpenSSH", "8.9p1"),
     Lex("Ubuntu", "3"), Lex("mysql", "8.0"), Lex("vsFTPd", "3.0.3"), Lex("220", ""),
     Lex("ok", ""), Lex("1.0", "")}

ExtractInputs == UNION {[1..n -> Lexemes] : n \in 0..MaxTextLen}

\* _extract_product_version(text); the result is kept as the candidates
ExtractCall(text) ==
    /\ NoCall
    /\ extractLog' = <<text>>
    /\ todo' = ExtractProductVersion(text)
    /\ UNCHANGED <<pc, mode, target, host, base_url, ports, poolVars, open_ports,
                   http_info, tls_info, vulnerabilities, httpLog, tlsLog, cveLog, tcpOk,
                   port_lists, reachable, cacheVars, cveVars, extVars>>

\* the (provider, product, version) arguments of the direct provider lookups
LookupInputs == {"osv", "nvd"} \X {"nginx", " Nginx ", "a b", "a_b"} \X {"", "1.2"}

\* osv_lookup(product, version) or nvd_lookup(product, version), called with
\* the in-process store; the call is logged ahead of its cache operations
LookupCall(provider, product, version, e) ==
    /\ pc = "lib"
    /\ httpLog = <<>>
    /\ extractLog = <<>>
    /\ calls < MaxCalls
    /\ ~e.gfail
    /\ ~e.sfail
    /\ calls' = calls + 1
    /\ LET log == Append(cacheLog, LogEntry("call", <<provider, product, version>>))
           r == IF provider = "osv"
                THEN osv_lookup(CS, log, product, version, now, e)
                ELSE nvd_lookup(CS, log, nvd_key, product, version, now, e)
       IN  /\ qret' = r.out
           /\ redis_client' = r.cs.client
           /\ redis_store' = r.cs.redis
           /\ memory_store' = r.cs.mem
           /\ cacheLog' = r.log
    /\ UNCHANGED <<scanVars, redis_on, now, lastSet, lastGet, nvd_key, qpc, q, extVars>>

PureInit ==
    /\ NoScan
    /\ LibInit
    /\ redis_on = FALSE
    /\ nvd_key = TRUE
    /\ ClientIdle
    /\ ApiIdle
    /\ TlsIdle
    /\ from_url_raises = FALSE

PureNext ==
    \/ \E s \in {"http", "https"}, e \in HttpEnvs :
          HttpCall([scheme |-> s, host |-> "example.com"], e)
    \/ \E text \in ExtractInputs : ExtractCall(text)
    \/ \E c \in LookupInputs, e \in AllLookupEnvs : LookupCall(c[1], c[2], c[3], e)

SpecPure == PureInit /\ [][PureNext]_vars

---------------------------------------------------------------------------
(* Direct calls of _tls_cert_info *)

\* the handshake and the certificate a direct call meets: notAfter in hours
\* from the time the function reads as now, or missing / unparseable
TlsInputs ==
    [handshake : BOOLEAN,
     not_after : {None} \cup {Some(h) : h \in (0 - MaxHours)..MaxHours}]

TlsInit ==
    /\ NoScan
    /\ LibInit
    /\ redis_on = FALSE
    /\ nvd_key = FALSE
    /\ ClientIdle
    /\ ApiIdle
    /\ from_url_raises = FALSE
    /\ tls_env \in {Some(e) : e \in TlsInputs}

\* tls_info = _tls_cert_info(host, 443)
TlsCall ==
    /\ pc = "lib"
    /\ tls_env # None
    /\ tlsLog = <<>>
    /\ tls_info' = TlsCertInfo(tls_env[1])
    /\ tlsLog' = Append(tlsLog, host)
    /\ UNCHANGED <<pc, mode, target, host, base_url, ports, poolVars, open_ports,
                   http_info, todo, vulnerabilities, httpLog, extractLog, cveLog, tcpOk,
                   port_lists, reachable, cacheVars, cveVars, extVars>>

TlsNext == TlsCall

SpecTls == TlsInit /\ [][TlsNext]_vars

---------------------------------------------------------------------------
(* Claims about run_scan, checked under Spec *)

PortsIn(ops) == {ops[i].port : i \in 1..Len(ops)}

\* the fixed port list of a mode, within the bounds
ModeList(m) == IF m = "quick" THEN QuickPorts ELSE FullPorts

\* C1: run_scan never raises, whatever the target and whatever fails on the
\* network, at the providers or in the cache backend
C1_NeverRaises == pc # "raised"

\* C2: the open_ports of the report hold exactly one entry per port of the
\* mode's fixed list, each with the service of the lookup table (or "unknown")
\* and the state open or closed
C2_OnePerPort ==
    pc = "done" =>
      /\ Len(open_ports) = Len(ModeList(mode))
      /\ PortsIn(open_ports) = Range(ModeList(mode))
      /\ \A i \in 1..Len(open_ports) :
           /\ open_ports[i].service = ServiceOf(open_ports[i].port)
           /\ open_ports[i].state \in {"open", "closed"}

C2_Witness ==
    /\ pc = "done"
    /\ mode = "full"
    /\ open_ports[1].port = 443
    /\ open_ports[1].state = "open"
    /\ \E i \in 1..Len(open_ports) : open_ports[i].state = "closed"

\* C3: no HTTP inspection, TLS inspection, fingerprint extraction or provider
\* query starts before every probe of the requested set has finished and its
\* result has been collected
C3_Barrier ==
    (pc \in {"http", "tls", "cve", "done"} \/ httpLog # <<>> \/ tlsLog # <<>>
       \/ extractLog # <<>> \/ cveLog # <<>> \/ cacheLog # <<>>)
    => /\ nsub = Len(ports)
       /\ queue = <<>>
       /\ running = {}
       /\ DOMAIN finished = {}
       /\ PortsIn(open_ports) = Range(ports)

C3_Witness ==
    /\ pc = "done"
    /\ httpLog # <<>>
    /\ tlsLog # <<>>
    /\ cveLog # <<>>

\* C5: when every TCP connect fails, the report lists every port of the
\* mode's list closed and without banner, http_info, tls_info and
\* vulnerabilities are empty, and no HTTP request, TLS handshake or provider
\* query is made
C5_Unreachable ==
    /\ tcpOk = {} =>
         /\ httpLog = <<>> /\ tlsLog = <<>> /\ cveLog = <<>> /\ cacheLog = <<>>
         /\ \A i \in 1..Len(open_ports) :
              open_ports[i].state = "closed" /\ open_ports[i].banner = NoText
    /\ (pc = "done" /\ tcpOk = {}) =>
         /\ PortsIn(open_ports) = Range(ModeList(mode))
         /\ http_info = EmptyDict
         /\ tls_info = EmptyDict
         /\ vulnerabilities = <<>>

C5_Witness == pc = "done" /\ tcpOk = {} /\ mode = "full" /\ Len(open_ports) = Len(FullPorts)

\* C7: the CVE identifiers of the vulnerabilities of a report are pairwise
\* distinct and in sorted order
C7_UniqueSorted ==
    pc = "done" =>
      \A i, j \in 1..Len(vulnerabilities) :
         i < j => vulnerabilities[i].cve < vulnerabilities[j].cve

\* the key of the claim: (lowercase product, lowercase version or "")
FingerprintKey(c) == <<Lower(c[1]), Lower(c[2])>>

KeysOf(cs) == {FingerprintKey(cs[i]) : i \in 1..Len(cs)}

DistinctKeys(cs) ==
    \A i, j \in 1..Len(cs) : i # j => FingerprintKey(cs[i]) # FingerprintKey(cs[j])

\* C8 as stated: in every run_scan the correlator is called at most once per
\* key, and once for every key that occurs among the banners and the header
C8_OncePerKey ==
    pc = "done" =>
      /\ DistinctKeys(cveLog)
      /\ KeysOf(cveLog) = KeysOf(Candidates(ScanTexts(open_ports, http_info)))

\* C8 amended: at most once per key in every run_scan; once for every key
\* that occurs in full mode, and not at all in quick mode
C8_OncePerKeyFull ==
    /\ DistinctKeys(cveLog)
    /\ pc = "done" =>
         IF mode = "full"
         THEN KeysOf(cveLog) = KeysOf(Candidates(ScanTexts(open_ports, http_info)))
         ELSE cveLog = <<>>

C8_Witness ==
    /\ pc = "done"
    /\ mode = "full"
    /\ Len(cveLog) = 2
    /\ Len(Candidates(ScanTexts(open_ports, http_info))) = 3


---------------------------------------------------------------------------
(* Claims about the pool, checked under SpecPool *)

\* C4: at every moment at most min(MAX_WORKERS, number of ports) probes run,
\* at most 7 in quick mode and 12 in full mode; a probe beyond the width of
\* the pool stays queued
C4_PoolBound ==
    /\ Cardinality(running) <= threads
    /\ threads <= MAX_WORKERS
    /\ threads <= Max(1, Len(ports))
    /\ mode = "quick" => Cardinality(running) <= 7
    /\ mode = "full" => Cardinality(running) <= 12

C4_Witness ==
    /\ mode = "full"
    /\ Cardinality(running) = 12
    /\ queue # <<>>

---------------------------------------------------------------------------
(* Claims about the correlator, checked under SpecCve *)

StrictlyAscending(l) == \A i, j \in 1..Len(l) : i < j => l[i] < l[j]

\* C6: the list returned by query_cves_for_product_version has no duplicate,
\* is in ascending order, and holds exactly the identifiers returned by the
\* OSV, NVD and CIRCL lookups of the call
C6_SortedUnion ==
    qpc = "ret" =>
      /\ StrictlyAscending(qret)
      /\ Range(qret) = Range(q.osv) \cup Range(q.nvd) \cup Range(q.circl)

C6_Witness ==
    /\ qpc = "ret"
    /\ q.osv = <<1>>
    /\ q.nvd = <<1, 2>>
    /\ q.circl = <<1>>
    /\ qret = <<1, 2>>

Providers == {"osv", "nvd", "circl"}

\* the request of the current call to provider p failed
Failed(p) == \E i \in 1..Len(cacheLog) : cacheLog[i] = LogEntry("failed", p)

\* what the lookup of provider p returned to the current call
Contribution(p) == CASE p = "osv" -> q.osv [] p = "nvd" -> q.nvd [] OTHER -> q.circl

\* C12: a provider whose request fails contributes an empty list, the call
\* still returns, and its result is exactly the sorted, deduplicated union of
\* what the other providers returned
C12_FailureIsolated ==
    /\ \A p \in Providers :
         (Failed(p) /\ qpc \in {"merge", "ret"}) => Contribution(p) = <<>>
    /\ qpc = "ret" =>
         \A p \in Providers :
            Failed(p) =>
               /\ StrictlyAscending(qret)
               /\ Range(qret) = UNION {Range(Contribution(o)) : o \in Providers \ {p}}

C12_Witness ==
    /\ qpc = "ret"
    /\ Failed("nvd")
    /\ ~Failed("osv")
    /\ ~Failed("circl")
    /\ q.osv = <<1, 2>>
    /\ q.circl = <<1>>
    /\ qret = <<1, 2>>

\* the cache keys nvd_lookup uses for the fingerprints of the model
NvdKeys == {NvdKey(Strip(c[1]), c[2]) : c \in CveInputs}

\* the log entries of nvd_lookup
NvdEntries == {LogEntry("fetch", "nvd"), LogEntry("failed", "nvd")}
                 \cup {LogEntry(op, k) : op \in {"get", "set"}, k \in NvdKeys}

\* the cache as it is when nvd_lookup never wrote to it
WithoutNvd(cs) ==
    [cs EXCEPT !.redis = [k \in DOMAIN cs.redis \ NvdKeys |-> cs.redis[k]],
               !.mem = [k \in DOMAIN cs.mem \ NvdKeys |-> cs.mem[k]]]

\* what a lookup answers and what it asks of the cache and of its provider
Asked(r) == [out |-> r.out, log |-> r.log]

\* C13: without an NVD credential nvd_lookup returns the empty list, sends no
\* request and neither reads nor writes the cache; the OSV and CIRCL lookups
\* answer and ask the same whether or not nvd_lookup has used the cache
C13_NvdSkipped ==
    /\ ~nvd_key =>
         /\ \A i \in 1..Len(cacheLog) : cacheLog[i] \notin NvdEntries
         /\ q.nvd = <<>>
         /\ DOMAIN redis_store \cap NvdKeys = {}
         /\ DOMAIN memory_store \cap NvdKeys = {}
    /\ qpc = "osv" =>
         \A e \in AllLookupEnvs :
            Asked(osv_lookup(CS, <<>>, q.product, q.version, now, e))
              = Asked(osv_lookup(WithoutNvd(CS), <<>>, q.product, q.version, now, e))
    /\ (qpc = "circl" /\ guess_vendor(q.product) # "") =>
         \A e \in AllLookupEnvs :
            Asked(circl_lookup(CS, <<>>, guess_vendor(q.product), q.product, now, e))
              = Asked(circl_lookup(WithoutNvd(CS), <<>>, guess_vendor(q.product),
                                   q.product, now, e))

C13_Witness ==
    /\ ~nvd_key
    /\ qpc = "ret"
    /\ calls = 2
    /\ q.osv = <<1, 2>>
    /\ q.circl = <<1>>
    /\ \E i \in 1..Len(cacheLog) : cacheLog[i] = LogEntry("fetch", "circl")

\* the cache key of the OSV lookup of the current call
OsvKeyOfCall == cache_key(<<"cve", "osv", q.product, q.version>>)

\* the empty list is what the cache holds under key k: some store has it and
\* no store has another value
NegativelyCached(k) ==
    /\ k \in DOMAIN memory_store \cup DOMAIN redis_store
    /\ k \in DOMAIN memory_store => memory_store[k].value = Dumps(<<>>)
    /\ k \in DOMAIN redis_store => redis_store[k].value = Dumps(<<>>)

\* C27: once the empty list has been stored under a key after a failed
\* fetch, every later lookup for that key (the TTL of 24 h has not elapsed)
\* returns the empty list without sending a request to the provider
C27_NegativeCaching ==
    [][ (OsvLookup /\ NegativelyCached(OsvKeyOfCall)) =>
          /\ q'.osv = <<>>
          /\ \A i \in (Len(cacheLog) + 1)..Len(cacheLog') :
                cacheLog'[i] # LogEntry("fetch", "osv") ]_vars

---------------------------------------------------------------------------
(* Claims about the cache service, checked under SpecCache *)

\* C9: a get that immediately follows set(k, v, ttl) returns v, whichever
\* calls to the shared store fail (stated for ttl > 0 only, so that a refusal
\* of a zero ttl by the shared store is not what decides it)
C9_RoundTrip ==
    (lastGet # None /\ lastGet[1].immediate /\ lastSet[lastGet[1].key].ttl > 0)
    => lastGet[1].val = Some(lastSet[lastGet[1].key].value)

\* C10: once ttl or more has elapsed since the last set(k, v, ttl), ttl > 0,
\* get(k) returns absent; and the in-process store never returns an entry at
\* or after its expiry instant
C10_Expiry ==
    lastGet # None =>
      LET g == lastGet[1]
      IN  /\ (g.key \in DOMAIN lastSet /\ lastSet[g.key].ttl > 0
                /\ g.at - lastSet[g.key].at >= lastSet[g.key].ttl)
             => g.val = None
          /\ (g.src = "memory" /\ g.val # None /\ g.expires_at # None
                /\ g.expires_at[1] # 0)
             => g.at < g.expires_at[1]

\* C28: whichever calls to the shared store fail, a get(k) that returns gives
\* absent or the value of the most recent completed set(k), never a value
\* that a later completed set(k) has overwritten
C28_NoStaleRead ==
    [][ \A k \in Keys :
          (CacheGetOp(k) /\ ~GetClientRaises(CS)) =>
             /\ lastGet' # None
             /\ \/ lastGet'[1].val = None
                \/ /\ k \in DOMAIN lastSet
                   /\ lastGet'[1].val = Some(lastSet[k].value) ]_vars

\* C11: no call of get, set, get_json or set_json raises to its caller,
\* whether the shared store is not configured, cannot be created or fails
C11_NeverRaises == cacheRaised = "none"

---------------------------------------------------------------------------
(* Further claims about run_scan, checked under Spec *)

\* C14: in quick mode run_scan makes no provider query and no cache access
\* and its vulnerabilities list is empty, whatever banners and Server header
\* were observed
C14_QuickNoCorrelation ==
    mode = "quick" =>
      /\ cveLog = <<>>
      /\ cacheLog = <<>>
      /\ qpc = "idle"
      /\ redis_client = "none"
      /\ redis_store = EmptyStore
      /\ memory_store = EmptyStore
      /\ vulnerabilities = <<>>

C14_Witness ==
    /\ pc = "done"
    /\ mode = "quick"
    /\ Len(todo) = 2
    /\ http_info # EmptyDict
    /\ http_info.server = NginxHeader

\* the step of run_scan that consumes the list a correlator call returned
ConsumesReturn == pc = "cve" /\ qpc = "ret" /\ qpc' = "idle"

\* C15: every entry of vulnerabilities has severity "low"; the list grows only
\* when a correlator call has returned, and then by exactly one entry per
\* identifier returned, in order, for the fingerprint of that call
C15_OneLowPerId ==
    /\ [](\A i \in 1..Len(vulnerabilities) : vulnerabilities[i].severity = "low")
    /\ [][ /\ vulnerabilities' # vulnerabilities => ConsumesReturn
           /\ ConsumesReturn =>
                /\ Len(vulnerabilities') = Len(vulnerabilities) + Len(qret)
                /\ SubSeq(vulnerabilities', 1, Len(vulnerabilities)) = vulnerabilities
                /\ \A i \in 1..Len(qret) :
                     LET v == vulnerabilities'[Len(vulnerabilities) + i]
                     IN  /\ v.cve = qret[i]
                         /\ <<v.prod, v.ver>> = cveLog[Len(cveLog)] ]_vars

C15_Witness ==
    /\ pc = "done"
    /\ Len(cveLog) = 2
    /\ Len(vulnerabilities) = 3

\* C17: with port 443 open the first HTTP request goes to an https URL and the
\* TLS inspection is made; with only port 80 open the requests go to http URLs
\* and no TLS inspection is made; with neither open no HTTP request is made
C17_SchemeSelection ==
    pc \in {"tls", "cve", "done"} =>
      /\ HasOpen(open_ports, 443) =>
           /\ httpLog # <<>>
           /\ httpLog[1].scheme = "https"
           /\ pc \in {"cve", "done"} => tlsLog # <<>>
      /\ (~HasOpen(open_ports, 443) /\ HasOpen(open_ports, 80)) =>
           /\ httpLog # <<>>
           /\ \A i \in 1..Len(httpLog) : httpLog[i].scheme = "http"
           /\ tlsLog = <<>>
      /\ (~HasOpen(open_ports, 443) /\ ~HasOpen(open_ports, 80)) =>
           /\ httpLog = <<>>
           /\ tlsLog = <<>>

C17_Witness ==
    /\ pc = "done"
    /\ target.scheme = ""
    /\ HasOpen(open_ports, 443)
    /\ HasOpen(open_ports, 80)
    /\ httpLog[1] = Req("HEAD", "https", "/")
    /\ tlsLog # <<>>

\* C24: run_scan always goes on until it returns: in every state it has
\* returned or a step of it or of a probe can be taken (no step leads back to
\* an earlier state), every submitted probe is run, also those queued behind
\* a full pool, and the report it returns holds the result of every probe
C24_Terminates ==
    /\ pc = "done" \/ ENABLED Next
    /\ pc # "start" =>
         Range(SubSeq(ports, 1, nsub))
           = Range(queue) \cup running \cup DOMAIN finished \cup PortsIn(open_ports)
    /\ pc = "done" =>
         /\ queue = <<>>
         /\ running = {}
         /\ PortsIn(open_ports) = Range(ports)

---------------------------------------------------------------------------
(* Claims about _tls_cert_info, checked under SpecTls *)

Days == (0 - (MaxHours \div 24) - 1)..((MaxHours \div 24) + 1)

---------------------------------------------------------------------------
(* Claims about concurrent use of the in-process store, checked under SpecMem *)

\* C21: once set(k, v, ttl) with ttl > 0 has completed, a get(k) of any thread
\* that starts afterwards, before ttl has elapsed and with no later set(k),
\* returns v, whatever the other threads' gets have done in between
C21_ConcurrentGet ==
    [][ \A t \in Threads, k \in Keys :
          (MemGetRead(t, k) /\ k \in DOMAIN lastSet /\ lastSet[k].ttl > 0
             /\ now - lastSet[k].at < lastSet[k].ttl)
          => /\ tpc'[t] = "done"
             /\ tret'[t] = Some(lastSet[k].value) ]_vars

---------------------------------------------------------------------------
(* Claims about single calls of the engine's functions, checked under SpecPure *)

\* the requests an inspection makes when nothing is retried: the HEAD, the
\* GET when the HEAD announced HTML, the robots.txt GET when the GET answered
Regular(e) ==
    IF e.head # "ok" \/ ~e.html THEN 1 ELSE IF e.get # "ok" THEN 2 ELSE 3

\* C22: within one HTTP inspection the plain-HTTP retry is issued at most
\* once, only for an https base URL and only when the HEAD or the follow-up
\* GET raised a request error, never for an http base URL; when the retry or
\* the robots.txt probe fails the inspection still returns its result, with
\* what was learnt before the failure
C22_HttpFallback ==
    [][ \A s \in {"http", "https"}, e \in HttpEnvs :
          HttpCall([scheme |-> s, host |-> "example.com"], e) =>
             LET n == Len(httpLog')
                 retried == n > Regular(e)
             IN  /\ n \in {Regular(e), Regular(e) + 1}
                 /\ \A i \in 1..Regular(e) : httpLog'[i].scheme = s
                 /\ retried =>
                      /\ s = "https"
                      /\ e.head = "reqexc" \/ (e.head = "ok" /\ e.html /\ e.get = "reqexc")
                      /\ httpLog'[n] = Req("GET", "http", "/")
                 /\ s = "http" => ~retried
                 /\ DOMAIN http_info' = DOMAIN InitialOut
                 /\ (retried /\ e.retry = "exc") =>
                      /\ http_info'.title = None
                      /\ http_info'.status = IF e.head = "ok" THEN Some(200) ELSE None
                 /\ (n = 3 /\ ~retried /\ e.robots = "exc") =>
                      /\ http_info'.robots = None
                      /\ http_info'.status = Some(200)
                      /\ http_info'.title = Some("Home") ]_vars

C22_Witness ==
    /\ pc = "lib"
    /\ httpLog = <<Req("HEAD", "https", "/"), Req("GET", "https", "/"), Req("GET", "http", "/")>>
    /\ http_info # EmptyDict
    /\ http_info.status = Some(200)
    /\ http_info.title = None

\* the patterns of PRODUCT_PATTERNS that match a text, by their position
Matching(t) == {i \in 1..Len(PRODUCT_PATTERNS) : PatternMatch(PRODUCT_PATTERNS[i], t) # None}

\* the alphabetic tokens longer than 2 of a text, by their position
AlphaTokens(t) == {i \in 1..Len(t) : IsAlpha(t[i].word) /\ Len(t[i].word) > 2}

\* the results of the probes in the order of ports, whatever the order in
\* which the probes completed
InPortOrder(ops) ==
    [i \in 1..Len(ports) |-> ops[CHOOSE j \in 1..Len(ops) : ops[j].port = ports[i]]]

\* C30: for fixed per-port outcomes and a fixed Server header, the set of
\* (product, version) strings passed to the correlator is the same for every
\* order in which the probes complete: it is the set obtained when they
\* complete in the order of the port list
C30_OrderIndependent ==
    pc = "done" =>
        Range(cveLog) =
            Range(Unique(Candidates(ScanTexts(InPortOrder(open_ports), http_info)), {}))

\* the lookups called so far, as positions of the log
LookupCalls == {i \in 1..Len(cacheLog) : cacheLog[i].op = "call"}

\* the cache key the lookup logged at position i used
KeyOfLookup(i) == cacheLog[i + 1].arg

\* two calls that differ in no more than letter case or surrounding whitespace
SameFingerprint(a, b) ==
    /\ a[1] = b[1]
    /\ Lower(Strip(a[2])) = Lower(Strip(b[2]))
    /\ Lower(Strip(a[3])) = Lower(Strip(b[3]))

\* C29: two provider calls whose (provider, product, version) differ in more
\* than letter case or surrounding whitespace never use the same cache key
C29_KeySeparation ==
    \A i \in LookupCalls, j \in LookupCalls :
        KeyOfLookup(i) = KeyOfLookup(j) => SameFingerprint(cacheLog[i].arg, cacheLog[j].arg)

\* C25: the extractor returns the match of the earliest pattern of
\* PRODUCT_PATTERNS that matches the text; when none matches, the first
\* alphabetic token longer than 2 without version; nothing for an empty text
\* or a text without such a token; (nginx, 1.23.4) for "nginx/1.23.4" and
\* (OpenSSH, 8.9p1) for "OpenSSH_8.9p1 Ubuntu-3"
C25_FirstPatternWins ==
    (pc = "lib" /\ extractLog # <<>>) =>
      LET t == extractLog[1]
      IN  /\ Matching(t) # {} =>
               LET i == CHOOSE x \in Matching(t) : \A y \in Matching(t) : x <= y
               IN  todo = PatternMatch(PRODUCT_PATTERNS[i], t)
          /\ (Matching(t) = {} /\ AlphaTokens(t) # {}) =>
               LET j == CHOOSE x \in AlphaTokens(t) : \A y \in AlphaTokens(t) : x <= y
               IN  todo = Some(<<t[j].word, "">>)
          /\ (Matching(t) = {} /\ AlphaTokens(t) = {}) => todo = None
          /\ t = NoText => todo = None
          /\ t = <<Lex("nginx", "1.23.4")>> => todo = Some(<<"nginx", "1.23.4">>)
          /\ t = SshBanner => todo = Some(<<"OpenSSH", "8.9p1">>)

C25_Witness ==
    /\ pc = "lib"
    /\ extractLog = << <<Lex("OpenSSH", "8.9p1"), Lex("nginx", "1.23.4")>> >>
    /\ todo = Some(<<"nginx", "1.23.4">>)

---------------------------------------------------------------------------
(* Claims about get_client, checked under SpecClient *)

\* C20: whatever the interleaving of concurrent first calls of get_client, at
\* most one client is constructed and every caller receives the same one; with
\* no redis:// target configured no client is constructed
C20_Singleton ==
    /\ constructed <= 1
    /\ \A t, u \in Threads : (tpc[t] = "done" /\ tpc[u] = "done") => tret[t] = tret[u]
    /\ ~redis_on => constructed = 0

---------------------------------------------------------------------------
(* Claims about the scan API, checked under SpecApi *)

\* C18: a cancel request on a completed, failed or canceled scan changes no
\* field of any scan and answers its current status; on a queued or running
\* scan it sets the status to canceled; so no cancel request takes a scan out
\* of canceled, completed or failed
C18_CancelIdempotent ==
    [][ \A u \in Users, i \in ScanIds :
          (CancelScan(u, i) /\ Visible(u, i)) =>
             /\ resp' # None
             /\ resp'[1].code = 200
             /\ \A j \in ScanIds \ {i} : scans'[j] = scans[j]
             /\ scans[i].status \in Terminal =>
                  /\ scans'[i] = scans[i]
                  /\ resp'[1].status = scans[i].status
             /\ scans[i].status \in {"queued", "running"} =>
                  /\ scans'[i].status = "canceled"
                  /\ resp'[1].status = "canceled" ]_vars

C18_Witness ==
    /\ resp = Some(Response("cancel", 1, 200, "completed", FALSE))
    /\ scans[1].status = "completed"
    /\ scans[1].progress = 100
    /\ scans[2] # NoRow
    /\ scans[2].status = "canceled"

\* C19: the result view and the download view answer scan data only for a
\* scan whose status is completed; for a queued, running, failed or canceled
\* scan they answer 409 without data
C19_ResultGated ==
    [][ \A u \in Users, i \in ScanIds :
          ((GetResult(u, i) \/ \E fmt \in Formats : Download(u, i, fmt)) /\ Visible(u, i)) =>
             /\ resp' # None
             /\ resp'[1].data => scans[i].status = "completed"
             /\ scans[i].status # "completed" =>
                  /\ resp'[1].code = 409
                  /\ ~resp'[1].data ]_vars

C19_Witness ==
    /\ resp = Some(Response("download", 1, 409, "canceled", FALSE))
    /\ scans[1].status = "canceled"
    /\ scans[1].has_result

=============================================================================
